---- MODULE Spec2Model ----
(***************************************************************************)
(* talvez: an optional-value type (Just / Nothing), its combinators, the   *)
(* predicate library and the maybe / perhaps wrappers.                     *)
(*                                                                         *)
(* Spec        one library call per behaviour, single-threaded.            *)
(* SpecThreads wrapped calls running on several threads, interleaved at    *)
(*             the boundaries of the warning capture.                      *)
(***************************************************************************)
EXTENDS Integers, Sequences, FiniteSets, TLC

VARIABLES
    op,         \* the library operation that was called ("init" before any)
    input,      \* its arguments
    result,     \* what it returned or raised
    calls,      \* the user callables it invoked, in order, with their arguments
    warn,       \* the process-wide state of the warnings module
    pre,        \* the warnings state when the operation was called
    pc,         \* per thread: position in the wrapped call
    targ,       \* per thread: the target function and the allow_warning flag
    saved,      \* per thread: the warnings state its catch_warnings saved
    log,        \* per thread: the list its catch_warnings records into
    fout,       \* per thread: the outcome of its target function
    tres        \* per thread: what its wrapped call returned

vars == <<op, input, result, calls, warn, pre, pc, targ, saved, log, fout, tres>>

(***************************************************************************)
(* Bounds                                                                  *)
(***************************************************************************)
MaxInt == 1
MaxSteps == 3
MaxItems == 3
MaxPreds == 2
NThreads == 2

(***************************************************************************)
(* Python values.  Every value is a record of the same shape: a type tag,  *)
(* a number (int and bool payload) and a sequence of values (the payload   *)
(* of Just, the elements of a list).                                       *)
(***************************************************************************)
None == [tag |-> "None", n |-> 0, items |-> <<>>]
True == [tag |-> "bool", n |-> 1, items |-> <<>>]
False == [tag |-> "bool", n |-> 0, items |-> <<>>]
PyInt(i) == [tag |-> "int", n |-> i, items |-> <<>>]
List(xs) == [tag |-> "list", n |-> 0, items |-> xs]
Bool(b) == IF b THEN True ELSE False

\* The outcome of evaluating a Python call: a returned value or a raised
\* Exception.
Ret(v) == [raised |-> FALSE, val |-> v]
Raise == [raised |-> TRUE, val |-> None]

(***************************************************************************)
(* core.py                                                                 *)
(***************************************************************************)
Nothing == [tag |-> "Nothing", n |-> 0, items |-> <<>>]

Just(v) == [tag |-> "Just", n |-> 0, items |-> <<v>>]

value(m) == m.items[1]

isinstance_Maybe(x) == x.tag \in {"Just", "Nothing"}

just_raw_none_to_nothing(a) == IF a = None THEN Nothing ELSE Just(a)

just(a) == Just(a)

nothing == Nothing

from_optional_never_nothing(opt) == just(opt)

from_optional(opt) == IF opt = None THEN nothing ELSE just(opt)

(***************************************************************************)
(* User-supplied callables.  A target function or a step is one of the     *)
(* names below; Call gives what calling it on a does: whether it raises,   *)
(* what it returns, whether it emits a warning (before anything else it    *)
(* does) and whether it ends by calling warnings.simplefilter itself.      *)
(***************************************************************************)
Fns == {"inc", "boom", "ret_none", "ident", "wrap", "safe_inc", "to_nothing",
        "warn_ident", "warn_boom", "mute_ident"}

Effect(raised, val, warned, setfilter) ==
    [raised |-> raised, val |-> val, warned |-> warned, setfilter |-> setfilter]

Call(fn, a) ==
    CASE fn = "inc" -> IF a.tag = "int" THEN Effect(FALSE, PyInt(a.n + 1), FALSE, "")
                                          ELSE Effect(TRUE, None, FALSE, "")
      [] fn = "boom" -> Effect(TRUE, None, FALSE, "")
      [] fn = "ret_none" -> Effect(FALSE, None, FALSE, "")
      [] fn = "ident" -> Effect(FALSE, a, FALSE, "")
      [] fn = "wrap" -> Effect(FALSE, Just(a), FALSE, "")
      [] fn = "safe_inc" -> IF a.tag = "int" THEN Effect(FALSE, Just(PyInt(a.n + 1)), FALSE, "")
                                               ELSE Effect(FALSE, Nothing, FALSE, "")
      [] fn = "to_nothing" -> Effect(FALSE, Nothing, FALSE, "")
      [] fn = "warn_ident" -> Effect(FALSE, a, TRUE, "")
      [] fn = "warn_boom" -> Effect(TRUE, None, TRUE, "")
      [] fn = "mute_ident" -> Effect(FALSE, a, FALSE, "ignore")

Invocation(fn, a) == [fn |-> fn, arg |-> a]

\* What an operation hands back: its outcome and the callables it invoked.
Done(out, invoked) == [out |-> out, calls |-> invoked]

Nothing_fmap(self, fn) == Done(Ret(self), <<>>)

Nothing_bind(self, fn) == Done(Ret(self), <<>>)

Just_fmap_no_try(self, fn) ==
    LET r == Call(fn, value(self))
    IN  Done(IF r.raised THEN Raise ELSE Ret(just(r.val)),
             <<Invocation(fn, value(self))>>)

Just_fmap(self, fn) ==
    LET r == Call(fn, value(self))
    IN  Done(IF r.raised THEN Ret(Nothing) ELSE Ret(just(r.val)),
             <<Invocation(fn, value(self))>>)

Just_bind_no_type_check(self, fn) ==
    LET r == Call(fn, value(self))
    IN  Done(IF r.raised THEN Ret(Nothing) ELSE Ret(r.val),
             <<Invocation(fn, value(self))>>)

Just_bind(self, fn) ==
    LET r == Call(fn, value(self))
    IN  Done(IF r.raised THEN Ret(Nothing)
             ELSE IF ~isinstance_Maybe(r.val) THEN Ret(Nothing)
             ELSE Ret(r.val),
             <<Invocation(fn, value(self))>>)

fmap(m, fn) == IF m.tag = "Nothing" THEN Nothing_fmap(m, fn) ELSE Just_fmap(m, fn)

bind(m, fn) == IF m.tag = "Nothing" THEN Nothing_bind(m, fn) ELSE Just_bind(m, fn)

get_or(m, default) == IF m.tag = "Nothing" THEN default ELSE value(m)

to_optional(m) == IF m.tag = "Nothing" THEN None ELSE value(m)

is_nothing(m) == m.tag = "Nothing"

is_just(m) == m.tag # "Nothing"

\* sequence: the for loop over the iterator.  i is the next position of
\* the iterator, out the list built so far; consumed counts the elements
\* taken from the iterator.
RECURSIVE sequence_loop(_, _, _)
sequence_loop(maybes, i, out) ==
    IF i > Len(maybes) THEN [out |-> Ret(just(List(out))), consumed |-> i - 1]
    ELSE IF maybes[i].tag = "Nothing" THEN [out |-> Ret(Nothing), consumed |-> i]
    ELSE sequence_loop(maybes, i + 1, Append(out, value(maybes[i])))

RECURSIVE sequence_skip_loop(_, _, _)
sequence_skip_loop(maybes, i, out) ==
    IF i > Len(maybes) THEN [out |-> Ret(just(List(out))), consumed |-> i - 1]
    ELSE IF maybes[i].tag = "Nothing" THEN sequence_skip_loop(maybes, i + 1, out)
    ELSE sequence_skip_loop(maybes, i + 1, Append(out, value(maybes[i])))

sequence_skips_nothing(maybes) == sequence_skip_loop(maybes, 1, <<>>)

sequence(maybes) == sequence_loop(maybes, 1, <<>>)

(***************************************************************************)
(* ops.py                                                                  *)
(***************************************************************************)
RECURSIVE chain_loop(_, _, _, _)
chain_loop(current, fns, i, invoked) ==
    IF i > Len(fns) THEN Done(Ret(current), invoked)
    ELSE IF is_nothing(current) THEN Done(Ret(current), invoked)
    ELSE LET b == bind(current, fns[i])
         IN  chain_loop(b.out.val, fns, i + 1, invoked \o b.calls)

RECURSIVE chain_skip_loop(_, _, _, _)
chain_skip_loop(current, fns, i, invoked) ==
    IF i > Len(fns) THEN Done(Ret(current), invoked)
    ELSE LET b == bind(current, fns[i])
         IN  chain_skip_loop(IF is_nothing(b.out.val) THEN current ELSE b.out.val,
                             fns, i + 1, invoked \o b.calls)

chain_keeps_last_just(m, fns) == chain_skip_loop(m, fns, 1, <<>>)

chain(m, fns) == chain_loop(m, fns, 1, <<>>)

compose_maybe(fns, m) == chain(m, fns)

(***************************************************************************)
(* predicates.py                                                           *)
(***************************************************************************)
not_true_by_truthiness(x) ==
    \/ x.tag \in {"None", "Nothing"}
    \/ x.tag \in {"bool", "int"} /\ x.n = 0
    \/ x.tag = "list" /\ Len(x.items) = 0

not_true(x) == ~(x = True)

not_null(a) == not_true(Bool(a = None))

\* len(a) raises TypeError for everything here but a list.
not_empty(a) == IF a.tag = "list" THEN Len(a.items) > 0 ELSE TRUE

\* Predicates and validators: the two library predicates above and some
\* user-supplied ones.  CallPred gives what calling p on a does.
Preds == {"not_null", "not_empty", "positive", "p_raise", "p_one", "p_false"}

CallPred(p, a) ==
    CASE p = "not_null" -> Ret(Bool(not_null(a)))
      [] p = "not_empty" -> Ret(Bool(not_empty(a)))
      [] p = "positive" -> IF a.tag = "int" THEN Ret(Bool(a.n > 0)) ELSE Raise
      [] p = "p_raise" -> Raise
      [] p = "p_one" -> Ret(PyInt(1))
      [] p = "p_false" -> Ret(False)
      [] p = "lambda_true" -> Ret(True)

RECURSIVE and_loop(_, _, _, _)
and_loop(preds, a, i, invoked) ==
    IF i > Len(preds) THEN Done(Ret(True), invoked)
    ELSE LET r == CallPred(preds[i], a)
             now == Append(invoked, Invocation(preds[i], a))
         IN  IF r.raised THEN Done(Raise, now)
             ELSE IF not_true(r.val) THEN Done(Ret(False), now)
             ELSE and_loop(preds, a, i + 1, now)

and_(preds, a) == and_loop(preds, a, 1, <<>>)

RECURSIVE or_loop(_, _, _, _)
or_loop(preds, a, i, invoked) ==
    IF i > Len(preds) THEN Done(Ret(False), invoked)
    ELSE LET r == CallPred(preds[i], a)
             now == Append(invoked, Invocation(preds[i], a))
         IN  IF r.raised THEN or_loop(preds, a, i + 1, now)
             ELSE IF r.val = True THEN Done(Ret(True), now)
             ELSE or_loop(preds, a, i + 1, now)

RECURSIVE or_raise_loop(_, _, _, _)
or_raise_loop(preds, a, i, invoked) ==
    IF i > Len(preds) THEN Done(Ret(False), invoked)
    ELSE LET r == CallPred(preds[i], a)
             now == Append(invoked, Invocation(preds[i], a))
         IN  IF r.raised THEN Done(Raise, now)
             ELSE IF r.val = True THEN Done(Ret(True), now)
             ELSE or_raise_loop(preds, a, i + 1, now)

or_propagates(preds, a) == or_raise_loop(preds, a, 1, <<>>)

or_(preds, a) == or_loop(preds, a, 1, <<>>)

(***************************************************************************)
(* wrappers.py.  The state of the warnings module is its filter list and   *)
(* the sink a shown warning goes to: <<>> (the original showwarning, which *)
(* prints it) or <<w>>, the list w of the catch_warnings(record=True) that *)
(* is installed.                                                           *)
(***************************************************************************)
WarnState(filters, sink) == [filters |-> filters, sink |-> sink]

\* with warnings.catch_warnings(record=True) as w: entering copies the
\* filter list and installs w as the sink; leaving puts back what entering
\* saved.
catch_warnings_enter(ws, w) == WarnState(ws.filters, w)

catch_warnings_exit_keeps_filters(ws, was) == WarnState(ws.filters, was.sink)

catch_warnings_exit(ws, was) == was

\* warnings.simplefilter(action): the filter goes to the front of the list.
simplefilter(ws, action) ==
    WarnState(<<action>> \o SelectSeq(ws.filters, LAMBDA x : x # action), ws.sink)

\* What a warnings.warn() call does under ws: the first filter decides.
Disposition(ws) ==
    CASE Head(ws.filters) = "error" -> "raise"
      [] Head(ws.filters) = "ignore" -> "drop"
      [] OTHER -> "show"

\* _with_warning_capture(lambda: f(a), allow_warning) run to completion
\* with the warnings module in state ws.
with_warning_capture(f, a, allow_warning, ws) ==
    LET entered == simplefilter(catch_warnings_enter(ws, <<"w">>), "always")
        r == Call(f, a)
        how == IF r.warned THEN Disposition(entered) ELSE "none"
        w == IF how = "show" /\ entered.sink = <<"w">> THEN <<f>> ELSE <<>>
        after == IF r.setfilter # "" /\ how # "raise"
                 THEN simplefilter(entered, r.setfilter) ELSE entered
        out == IF r.raised \/ how = "raise" THEN Raise
               ELSE IF Len(w) > 0 /\ ~allow_warning THEN Raise
               ELSE Ret(r.val)
    IN  [out |-> out, calls |-> <<Invocation(f, a)>>,
         warn |-> catch_warnings_exit(after, ws)]

ensure_fn(ensure) == IF ensure = "None" THEN "lambda_true" ELSE ensure

maybe(f, a, ensure, allow_warning, ws) ==
    LET c == with_warning_capture(f, a, allow_warning, ws)
        e == CallPred(ensure_fn(ensure), c.out.val)
        checked == Append(c.calls, Invocation(ensure_fn(ensure), c.out.val))
    IN  IF c.out.raised THEN [out |-> Ret(nothing), calls |-> c.calls, warn |-> c.warn]
        ELSE IF e.raised THEN [out |-> Ret(nothing), calls |-> checked, warn |-> c.warn]
        ELSE IF not_true(e.val) THEN [out |-> Ret(nothing), calls |-> checked, warn |-> c.warn]
        ELSE [out |-> Ret(just(c.out.val)), calls |-> checked, warn |-> c.warn]

perhaps(f, a, default, ensure, allow_warning, ws) ==
    LET c == with_warning_capture(f, a, allow_warning, ws)
        e == CallPred(ensure_fn(ensure), c.out.val)
        checked == Append(c.calls, Invocation(ensure_fn(ensure), c.out.val))
    IN  IF c.out.raised THEN [out |-> Ret(default), calls |-> c.calls, warn |-> c.warn]
        ELSE IF e.raised THEN [out |-> Ret(default), calls |-> checked, warn |-> c.warn]
        ELSE IF not_true(e.val) THEN [out |-> Ret(default), calls |-> checked, warn |-> c.warn]
        ELSE [out |-> Ret(c.out.val), calls |-> checked, warn |-> c.warn]

(***************************************************************************)
(* The arguments the operations are called with.                           *)
(***************************************************************************)
SeqsUpTo(S, n) == UNION {[1..k -> S] : k \in 0..n}

BaseVals == {None, True, False, List(<<>>), List(<<PyInt(0)>>)}
            \cup {PyInt(i) : i \in 0..MaxInt}

Maybes == {Nothing, Just(Just(PyInt(0)))} \cup {Just(v) : v \in BaseVals}

StepFns == {"inc", "boom", "safe_inc", "wrap", "to_nothing", "ident"}

Ensures == Preds \cup {"None"}

Defaults == {None, PyInt(99)}

InitFilters == {<<"default">>, <<"ignore">>, <<"error">>}

Threads == 1..NThreads

ThreadFns == {"ident", "warn_ident"}

(***************************************************************************)
(* Spec: one library call.                                                 *)
(***************************************************************************)
Idle == [t \in Threads |-> "idle"]

Init ==
    /\ op = "init"
    /\ input = <<>>
    /\ result = Ret(None)
    /\ calls = <<>>
    /\ warn \in {WarnState(fs, <<>>) : fs \in InitFilters}
    /\ pre = warn
    /\ pc = Idle
    /\ targ = [t \in Threads |-> [fn |-> "ident", allow |-> FALSE]]
    /\ saved = [t \in Threads |-> warn]
    /\ log = [t \in Threads |-> <<>>]
    /\ fout = [t \in Threads |-> Ret(None)]
    /\ tres = [t \in Threads |-> Ret(None)]

threadVars == <<pc, targ, saved, log, fout, tres>>

\* An operation that leaves the warnings module alone.
Returns(name, args, r) ==
    /\ op' = name
    /\ input' = args
    /\ result' = r.out
    /\ calls' = r.calls
    /\ pre' = warn
    /\ UNCHANGED <<warn, threadVars>>

Pure(v) == Done(Ret(v), <<>>)

DoJust ==
    /\ op = "init"
    /\ \E v \in BaseVals : Returns("just", [a |-> v], Pure(just(v)))

DoNothing ==
    /\ op = "init"
    /\ Returns("nothing", <<>>, Pure(nothing))

DoFromOptional ==
    /\ op = "init"
    /\ \E v \in BaseVals : Returns("from_optional", [opt |-> v], Pure(from_optional(v)))

\* m.get_or(default), m.to_optional(), m.is_just, m.is_nothing for the m that
\* a constructor built.
DoInspect ==
    /\ op = "init"
    /\ \E v \in BaseVals, d \in Defaults, k \in {"just", "from_optional", "nothing"} :
        LET m == CASE k = "just" -> just(v)
                   [] k = "from_optional" -> from_optional(v)
                   [] k = "nothing" -> nothing
        IN  Returns("inspect", [ctor |-> k, a |-> v, default |-> d],
                    Pure([m |-> m, get_or |-> get_or(m, d),
                          to_optional |-> to_optional(m),
                          is_just |-> is_just(m), is_nothing |-> is_nothing(m)]))

DoFmap ==
    /\ op = "init"
    /\ \E m \in Maybes, fn \in Fns : Returns("fmap", [m |-> m, fn |-> fn], fmap(m, fn))

DoBind ==
    /\ op = "init"
    /\ \E m \in Maybes, fn \in Fns : Returns("bind", [m |-> m, fn |-> fn], bind(m, fn))

DoSequence ==
    /\ op = "init"
    /\ \E ms \in SeqsUpTo(Maybes, MaxItems) :
        LET r == sequence(ms)
        IN  Returns("sequence", [maybes |-> ms, consumed |-> r.consumed],
                    Done(r.out, <<>>))

DoChain ==
    /\ op = "init"
    /\ \E m \in Maybes, fns \in SeqsUpTo(StepFns, MaxSteps) :
        Returns("chain", [m |-> m, fns |-> fns], chain(m, fns))

DoComposeMaybe ==
    /\ op = "init"
    /\ \E m \in Maybes, fns \in SeqsUpTo(StepFns, MaxSteps) :
        Returns("compose_maybe", [m |-> m, fns |-> fns], compose_maybe(fns, m))

DoAnd ==
    /\ op = "init"
    /\ \E ps \in SeqsUpTo(Preds, MaxPreds), v \in BaseVals :
        Returns("and_", [preds |-> ps, a |-> v], and_(ps, v))

DoOr ==
    /\ op = "init"
    /\ \E ps \in SeqsUpTo(Preds, MaxPreds), v \in BaseVals :
        Returns("or_", [preds |-> ps, a |-> v], or_(ps, v))

\* A call of a maybe- or perhaps-wrapped function.
Wrapped(name, args, r) ==
    /\ op' = name
    /\ input' = args
    /\ result' = r.out
    /\ calls' = r.calls
    /\ pre' = warn
    /\ warn' = r.warn
    /\ UNCHANGED threadVars

DoMaybe ==
    /\ op = "init"
    /\ \E f \in Fns, v \in BaseVals, en \in Ensures, aw \in BOOLEAN :
        Wrapped("maybe", [f |-> f, a |-> v, ensure |-> en, allow_warning |-> aw],
                maybe(f, v, en, aw, warn))

DoPerhaps ==
    /\ op = "init"
    /\ \E f \in Fns, v \in BaseVals, en \in Ensures, aw \in BOOLEAN, d \in Defaults :
        Wrapped("perhaps", [f |-> f, a |-> v, ensure |-> en, allow_warning |-> aw,
                            default |-> d],
                perhaps(f, v, d, en, aw, warn))

Next ==
    \/ DoJust
    \/ DoNothing
    \/ DoFromOptional
    \/ DoInspect
    \/ DoFmap
    \/ DoBind
    \/ DoSequence
    \/ DoChain
    \/ DoComposeMaybe
    \/ DoAnd
    \/ DoOr
    \/ DoMaybe
    \/ DoPerhaps

Spec == Init /\ [][Next]_vars

(***************************************************************************)
(* Properties of Spec                                                      *)
(***************************************************************************)

\* C1: a wrapped call fails iff (a) the target raises, or (b) it returns
\* normally but emitted a warning while allow_warning is false, or (c) the
\* validator, run on the returned value, raises or returns anything but
\* exactly True.  On failure maybe returns Nothing and perhaps the default;
\* otherwise maybe returns Just(value) and perhaps the raw value.  The
\* validator runs only when neither (a) nor (b) occurred.
C1_WrapperFailsIff ==
    op \in {"maybe", "perhaps"} =>
        LET r == Call(input.f, input.a)
            a_raises == r.raised
            b_warns == ~r.raised /\ r.warned /\ ~input.allow_warning
            e == IF input.ensure = "None" THEN Ret(True)
                 ELSE CallPred(input.ensure, r.val)
            c_invalid == ~a_raises /\ ~b_warns /\ (e.raised \/ e.val # True)
            failed == a_raises \/ b_warns \/ c_invalid
            validated == \E i \in 1..Len(calls) : calls[i].fn \in Preds \cup {"lambda_true"}
        IN  /\ op = "maybe" =>
                result = IF failed THEN Ret(Nothing) ELSE Ret(Just(r.val))
            /\ op = "perhaps" =>
                result = IF failed THEN Ret(input.default) ELSE Ret(r.val)
            /\ validated <=> (~a_raises /\ ~b_warns)

\* A target that returned normally but warned, allow_warning false: the
\* call failed, the default came back and the validator was not run.
C1_Witness ==
    /\ op = "perhaps"
    /\ input.f = "warn_ident"
    /\ ~input.allow_warning
    /\ input.default = PyInt(99)
    /\ input.a = PyInt(0)
    /\ result = Ret(PyInt(99))
    /\ Len(calls) = 1

\* C2 (as stated): fmap on Just(v) with an f that returns normally yields
\* Just(f(v)), except that a None result yields Nothing.
C2_FmapNoneIsNothing ==
    (op = "fmap" /\ input.m.tag = "Just" /\ ~Call(input.fn, value(input.m)).raised) =>
        LET r == Call(input.fn, value(input.m))
        IN  result = Ret(IF r.val = None THEN Nothing ELSE Just(r.val))

\* C2 (amended): fmap on Just(v) with an f that returns normally yields
\* Just(f(v)) for every returned value, None included: Just(None).
C2_FmapWrapsRaw ==
    (op = "fmap" /\ input.m.tag = "Just" /\ ~Call(input.fn, value(input.m)).raised) =>
        result = Ret(Just(Call(input.fn, value(input.m)).val))

\* fmap over a Just with a function that returned None.
C2_Witness ==
    /\ op = "fmap"
    /\ input.m = Just(PyInt(1))
    /\ input.fn = "ret_none"
    /\ result = Ret(Just(None))

\* C3: bind on Just(v) evaluates f(v) exactly once and returns Nothing if f
\* raises or returns something that is not a Maybe; otherwise it returns
\* exactly what f returned.  On Nothing, bind returns Nothing and never
\* invokes f.
C3_Bind ==
    op = "bind" =>
        IF input.m.tag = "Just"
        THEN LET r == Call(input.fn, value(input.m))
             IN  /\ calls = <<Invocation(input.fn, value(input.m))>>
                 /\ result = IF r.raised \/ r.val.tag \notin {"Just", "Nothing"}
                             THEN Ret(Nothing) ELSE Ret(r.val)
        ELSE calls = <<>> /\ result = Ret(Nothing)

\* bind with a function that returned a plain int.
C3_Witness ==
    /\ op = "bind"
    /\ input.m = Just(PyInt(0))
    /\ input.fn = "inc"
    /\ Len(calls) = 1
    /\ result = Ret(Nothing)

\* What one step of a chain leaves as the accumulated value.
StepYields(c) ==
    LET r == Call(c.fn, c.arg)
    IN  IF r.raised \/ r.val.tag \notin {"Just", "Nothing"} THEN Nothing ELSE r.val

\* C4: chain(start, s1..sn) invokes the steps in the given order, each at
\* most once; once the accumulated value is Nothing no later step is
\* invoked and the result is Nothing; if no step yields Nothing the result
\* is what the last step returned, and with zero steps it is start.
C4_Chain ==
    op = "chain" =>
        LET n == Len(input.fns)
            k == Len(calls)
        IN  /\ k <= n
            /\ \A i \in 1..k : calls[i].fn = input.fns[i]
            /\ k >= 1 => input.m.tag = "Just" /\ calls[1].arg = value(input.m)
            /\ \A i \in 1..(k - 1) :
                   /\ StepYields(calls[i]).tag = "Just"
                   /\ calls[i + 1].arg = value(StepYields(calls[i]))
            /\ k < n => /\ result = Ret(Nothing)
                        /\ IF k = 0 THEN input.m = Nothing
                           ELSE StepYields(calls[k]) = Nothing
            /\ k = n => result = Ret(IF n = 0 THEN input.m ELSE StepYields(calls[n]))

\* chain(Just(0), safe_inc, to_nothing, safe_inc): the third step is never
\* invoked.
C4_Witness ==
    /\ op = "chain"
    /\ input.m = Just(PyInt(0))
    /\ input.fns = <<"safe_inc", "to_nothing", "safe_inc">>
    /\ Len(calls) = 2
    /\ result = Ret(Nothing)

\* C5: sequence(items) returns Just(list of the inner values, in order) if
\* every item is a Just, Just([]) for no items, and Nothing if any item is
\* Nothing; no element after the first Nothing is consumed.
C5_Sequence ==
    op = "sequence" =>
        LET ms == input.maybes
            absent == {i \in 1..Len(ms) : ms[i] = Nothing}
        IN  IF absent = {}
            THEN /\ result = Ret(Just(List([i \in 1..Len(ms) |-> ms[i].items[1]])))
                 /\ input.consumed = Len(ms)
            ELSE /\ result = Ret(Nothing)
                 /\ \A i \in absent : input.consumed <= i
                 /\ input.consumed \in absent

\* sequence([Just(1), Nothing, Just(0)]): two elements consumed.
C5_Witness ==
    /\ op = "sequence"
    /\ input.maybes = <<Just(PyInt(1)), Nothing, Just(PyInt(0))>>
    /\ input.consumed = 2
    /\ result = Ret(Nothing)

\* C6: fmap, bind, a chain of steps and the two wrappers never raise to
\* their caller; an error raised by the user's function comes back as
\* Nothing (perhaps: as the default), and fmap and bind on Nothing return
\* Nothing whatever the function.
C6_NeverRaises ==
    /\ op \in {"fmap", "bind", "chain", "compose_maybe", "maybe", "perhaps"} =>
           ~result.raised
    /\ op \in {"fmap", "bind"} =>
           /\ input.m = Nothing => result = Ret(Nothing)
           /\ (input.m # Nothing /\ Call(input.fn, value(input.m)).raised) =>
                  result = Ret(Nothing)
    /\ (op = "maybe" /\ Call(input.f, input.a).raised) => result = Ret(Nothing)
    /\ (op = "perhaps" /\ Call(input.f, input.a).raised) => result = Ret(input.default)

\* fmap over a Just with a function that raises.
C6_Witness ==
    /\ op = "fmap"
    /\ input.m = Just(PyInt(0))
    /\ input.fn = "boom"
    /\ result = Ret(Nothing)

\* The positions of preds whose predicate decides and_ (raises or returns
\* something that is not True), and those that decide or_ (returns True).
Stops_and(ps, a) ==
    {i \in 1..Len(ps) : CallPred(ps[i], a).raised \/ CallPred(ps[i], a).val # True}

Stops_or(ps, a) ==
    {i \in 1..Len(ps) : ~CallPred(ps[i], a).raised /\ CallPred(ps[i], a).val = True}

First(S) == CHOOSE i \in S : \A j \in S : i <= j

\* C7: and_ evaluates predicates in order, returns False at the first that
\* returns anything but True and propagates the first error, evaluating
\* nothing after it; or_ returns True at the first predicate that returns
\* True, treats a raising predicate as a no and goes on, and returns False
\* when every predicate returned non-True or raised.
C7_AndOr ==
    /\ op = "and_" =>
        LET ps == input.preds
            S == Stops_and(ps, input.a)
        IN  /\ \A i \in 1..Len(calls) : calls[i] = Invocation(ps[i], input.a)
            /\ IF S = {} THEN result = Ret(True) /\ Len(calls) = Len(ps)
               ELSE /\ Len(calls) = First(S)
                    /\ result = IF CallPred(ps[First(S)], input.a).raised
                                THEN Raise ELSE Ret(False)
    /\ op = "or_" =>
        LET ps == input.preds
            S == Stops_or(ps, input.a)
        IN  /\ \A i \in 1..Len(calls) : calls[i] = Invocation(ps[i], input.a)
            /\ IF S = {} THEN result = Ret(False) /\ Len(calls) = Len(ps)
               ELSE Len(calls) = First(S) /\ result = Ret(True)

\* or_(p_raise, not_null): the error is swallowed and the second predicate
\* decides.
C7_Witness ==
    /\ op = "or_"
    /\ input.preds = <<"p_raise", "not_null">>
    /\ input.a = PyInt(0)
    /\ Len(calls) = 2
    /\ result = Ret(True)

\* C8: just(v) is a Just for every v, None included, and
\* just(v).get_or(d) = v; from_optional(None) is Nothing, whose get_or(d)
\* is d, and from_optional(v) = just(v) for every other v.
C8_Constructors ==
    /\ op = "just" => result = Ret([tag |-> "Just", n |-> 0, items |-> <<input.a>>])
    /\ op = "from_optional" =>
           result = Ret(IF input.opt = None THEN Nothing
                        ELSE [tag |-> "Just", n |-> 0, items |-> <<input.opt>>])
    /\ (op = "inspect" /\ input.ctor = "just") =>
           /\ result.val.is_just
           /\ ~result.val.is_nothing
           /\ result.val.get_or = input.a
    /\ (op = "inspect" /\ input.ctor = "from_optional") =>
           IF input.a = None
           THEN /\ result.val.m = Nothing
                /\ result.val.is_nothing
                /\ result.val.get_or = input.default
           ELSE /\ result.val.m = [tag |-> "Just", n |-> 0, items |-> <<input.a>>]
                /\ result.val.get_or = input.a

\* from_optional(None).get_or(99) is 99.
C8_Witness ==
    /\ op = "inspect"
    /\ input.ctor = "from_optional"
    /\ input.a = None
    /\ input.default = PyInt(99)
    /\ result.val.is_nothing
    /\ result.val.get_or = PyInt(99)

\* C9: when a wrapped call has returned, by whichever path, the state of
\* the warnings module (filters and sink) is what it was before the call.
C9_CaptureTornDown ==
    op \in {"maybe", "perhaps"} => warn = pre

\* A target that called simplefilter("ignore") itself, under a process
\* whose filter was "error": the filter is "error" again afterwards.
C9_Witness ==
    /\ op = "maybe"
    /\ input.f = "mute_ident"
    /\ pre = WarnState(<<"error">>, <<>>)
    /\ warn = WarnState(<<"error">>, <<>>)

(***************************************************************************)
(* SpecThreads: every thread calls a maybe()-wrapped function once (no     *)
(* validator, argument 0).  A thread may be preempted between entering the *)
(* capture, running its target and leaving the capture; the warnings       *)
(* module's state is shared by all threads.                                *)
(***************************************************************************)
ThreadArg == PyInt(0)

InitThreads ==
    /\ op = "threads"
    /\ input = <<>>
    /\ result = Ret(None)
    /\ calls = <<>>
    /\ warn \in {WarnState(fs, <<>>) : fs \in InitFilters}
    /\ pre = warn
    /\ pc = Idle
    /\ targ \in [Threads -> [fn : ThreadFns, allow : BOOLEAN]]
    /\ saved = [t \in Threads |-> warn]
    /\ log = [t \in Threads |-> <<>>]
    /\ fout = [t \in Threads |-> Ret(None)]
    /\ tres = [t \in Threads |-> Ret(None)]

callVars == <<op, input, result, calls, pre>>

\* with warnings.catch_warnings(record=True) as w: simplefilter("always")
T_Enter(t) ==
    /\ pc[t] = "idle"
    /\ saved' = [saved EXCEPT ![t] = warn]
    /\ log' = [log EXCEPT ![t] = <<>>]
    /\ warn' = simplefilter(catch_warnings_enter(warn, <<t>>), "always")
    /\ pc' = [pc EXCEPT ![t] = "entered"]
    /\ UNCHANGED <<callVars, targ, fout, tres>>

\* result = fn(): a warning the target emits goes where the warnings
\* module's state at that moment sends it.
T_Run(t) ==
    /\ pc[t] = "entered"
    /\ LET r == Call(targ[t].fn, ThreadArg)
           how == IF r.warned THEN Disposition(warn) ELSE "none"
       IN  /\ fout' = [fout EXCEPT ![t] = IF r.raised \/ how = "raise" THEN Raise
                                          ELSE Ret(r.val)]
           /\ log' = IF how = "show" /\ warn.sink # <<>>
                     THEN [log EXCEPT ![warn.sink[1]] = Append(@, t)]
                     ELSE log
    /\ pc' = [pc EXCEPT ![t] = "ran"]
    /\ UNCHANGED <<callVars, warn, targ, saved, tres>>

\* if w and not allow_warning: raise; leaving the with block; then the rest
\* of wrapped().
T_Exit(t) ==
    /\ pc[t] = "ran"
    /\ LET out == IF fout[t].raised THEN Raise
                  ELSE IF Len(log[t]) > 0 /\ ~targ[t].allow THEN Raise
                  ELSE fout[t]
       IN  tres' = [tres EXCEPT ![t] =
                       IF out.raised THEN Ret(nothing)
                       ELSE IF not_true(CallPred(ensure_fn("None"), out.val).val)
                            THEN Ret(nothing)
                       ELSE Ret(just(out.val))]
    /\ warn' = catch_warnings_exit(warn, saved[t])
    /\ pc' = [pc EXCEPT ![t] = "done"]
    /\ UNCHANGED <<callVars, targ, saved, log, fout>>

NextThreads == \E t \in Threads : T_Enter(t) \/ T_Run(t) \/ T_Exit(t)

SpecThreads == InitThreads /\ [][NextThreads]_vars

(***************************************************************************)
(* Properties of SpecThreads                                               *)
(***************************************************************************)

\* C10: under every interleaving, a wrapped call with allow_warning false
\* fails because of a warning only if its own target emitted one, a
\* warning its own target emitted is never missed, and the warnings state
\* is restored once all calls have returned.
C10_ThreadIsolation ==
    /\ \A t \in Threads :
           pc[t] = "done" =>
               LET r == Call(targ[t].fn, ThreadArg)
               IN  /\ (tres[t] = Ret(Nothing) /\ ~r.raised) => r.warned
                   /\ (r.warned /\ ~targ[t].allow) => tres[t] = Ret(Nothing)
    /\ (\A t \in Threads : pc[t] = "done") => warn = pre

====
